---- MODULE Spec2Model ----
(***************************************************************************)
(* Text-preparation pipeline of tts_app/preprocess.py:                     *)
(*   normalize_whitespace -> remove_page_artifacts -> (remove_boilerplate) *)
(*   -> blank-line collapse -> split_into_chunks                           *)
(*                                                                         *)
(* A Python str is modelled as a sequence of characters; a character is a  *)
(* one-element TLA+ string ("a", " ", "\n").  Characters outside ASCII are *)
(* atoms with a spelled-out name ("EMDASH", "COPYRIGHT_SIGN").  len() is   *)
(* Len, so one atom counts as one character, as one code point does in     *)
(* Python.                                                                 *)
(***************************************************************************)
EXTENDS Integers, Sequences, FiniteSets, TLC

VARIABLES
    text,            \* argument `text` of the entry point under call
    max_chars,       \* argument `max_chars` / `max_chunk_chars`
    filter_meta,     \* argument `filter_meta` of preprocess
    pc,              \* position of the call
    cur,             \* local `text` of preprocess, rebound by each pass
    sentences,       \* local `sentences` of split_into_chunks
    idx,             \* number of sentences the for-loop has consumed
    chunks,          \* local `chunks` of split_into_chunks (the return value)
    current_chunk,   \* local `current_chunk` of split_into_chunks
    current_length,  \* local `current_length` of split_into_chunks
    raised,          \* TRUE iff the call ended by raising an exception
    prev,            \* the text the latest pass was given
    other,           \* a second call of preprocess: its arguments and locals
    splitter,        \* locals of _split_long_sentence: parts, chunks, current, ...
    cli,             \* a run of main: args, position, exit status, error lines
    synth            \* a call of SileroTTS.synthesize_chunks, and the files

vars == <<text, max_chars, filter_meta, pc, cur, sentences, idx, chunks,
          current_chunk, current_length, raised, prev, other, splitter, cli,
          synth>>

-----------------------------------------------------------------------------
(* Thresholds written in the source                                        *)

ShortLine == 3       \* remove_page_artifacts: len(stripped) < 3
TocLead == 60        \* remove_boilerplate: .{1,60}
TocDots == 4         \* remove_boilerplate: [...]{4,}
TocLineLen == 60     \* remove_boilerplate: len(stripped) < 60
TocBlock == 5        \* remove_boilerplate: len(buf) < 5

-----------------------------------------------------------------------------
(* Character classes, as Python's str methods and the re module see them,  *)
(* restricted to the characters the model uses.                            *)

\* str.isspace() / regex \s
Whitespace == {" ", "\t", "\n", "\r", "\f"}

\* regex \d / the digits
Digits == {"0", "1", "2", "3", "4", "5", "6", "7", "8", "9"}

UpperLatin == <<"A", "B", "C", "D", "E", "F", "G", "H", "I", "J", "K", "L", "M",
                "N", "O", "P", "Q", "R", "S", "T", "U", "V", "W", "X", "Y", "Z">>

LowerLatin == <<"a", "b", "c", "d", "e", "f", "g", "h", "i", "j", "k", "l", "m",
                "n", "o", "p", "q", "r", "s", "t", "u", "v", "w", "x", "y", "z">>

\* The Cyrillic capitals U+0410..U+042F, which are the class [А-Я], and their
\* small letters U+0430..U+044F (atoms named after the Unicode letter names).
UpperCyrillic == <<"CYR_CAP_A", "CYR_CAP_BE", "CYR_CAP_VE", "CYR_CAP_GHE", "CYR_CAP_DE", "CYR_CAP_IE",
                  "CYR_CAP_ZHE", "CYR_CAP_ZE", "CYR_CAP_I", "CYR_CAP_SHORT_I", "CYR_CAP_KA", "CYR_CAP_EL",
                  "CYR_CAP_EM", "CYR_CAP_EN", "CYR_CAP_O", "CYR_CAP_PE", "CYR_CAP_ER", "CYR_CAP_ES",
                  "CYR_CAP_TE", "CYR_CAP_U", "CYR_CAP_EF", "CYR_CAP_HA", "CYR_CAP_TSE", "CYR_CAP_CHE",
                  "CYR_CAP_SHA", "CYR_CAP_SHCHA", "CYR_CAP_HARD", "CYR_CAP_YERU", "CYR_CAP_SOFT", "CYR_CAP_E",
                  "CYR_CAP_YU", "CYR_CAP_YA">>

LowerCyrillic == <<"CYR_A", "CYR_BE", "CYR_VE", "CYR_GHE", "CYR_DE", "CYR_IE",
                  "CYR_ZHE", "CYR_ZE", "CYR_I", "CYR_SHORT_I", "CYR_KA", "CYR_EL",
                  "CYR_EM", "CYR_EN", "CYR_O", "CYR_PE", "CYR_ER", "CYR_ES",
                  "CYR_TE", "CYR_U", "CYR_EF", "CYR_HA", "CYR_TSE", "CYR_CHE",
                  "CYR_SHA", "CYR_SHCHA", "CYR_HARD", "CYR_YERU", "CYR_SOFT", "CYR_E",
                  "CYR_YU", "CYR_YA">>

Range(f) == {f[i] : i \in DOMAIN f}

\* Ё (U+0401) and ё (U+0451): letters that lie outside U+0410..U+044F
Letters == Range(UpperLatin) \cup Range(LowerLatin)
             \cup Range(UpperCyrillic) \cup Range(LowerCyrillic)
             \cup {"CYR_CAP_IO", "CYR_IO"}

\* the small letter of every capital
SmallOf ==
    [c \in Range(UpperLatin) \cup Range(UpperCyrillic) \cup {"CYR_CAP_IO"} |->
        IF c \in Range(UpperLatin)
        THEN LowerLatin[CHOOSE i \in DOMAIN UpperLatin : UpperLatin[i] = c]
        ELSE IF c \in Range(UpperCyrillic)
        THEN LowerCyrillic[CHOOSE i \in DOMAIN UpperCyrillic : UpperCyrillic[i] = c]
        ELSE "CYR_IO"]

\* str.lower() on one character (what re.IGNORECASE compares)
lower(c) == IF c \in DOMAIN SmallOf THEN SmallOf[c] ELSE c

\* str.isalpha(): non-empty and every character a letter
isalpha(s) == Len(s) > 0 /\ \A i \in 1..Len(s) : s[i] \in Letters

-----------------------------------------------------------------------------
(* str methods                                                             *)

\* First index >= i whose character is outside S, Len(s)+1 when there is none.
RECURSIVE SkipWhile(_, _, _)
SkipWhile(s, i, S) ==
    IF i > Len(s) \/ s[i] \notin S THEN i ELSE SkipWhile(s, i + 1, S)

\* First index >= i whose character is in S, Len(s)+1 when there is none.
RECURSIVE SkipUntil(_, _, _)
SkipUntil(s, i, S) ==
    IF i > Len(s) \/ s[i] \in S THEN i ELSE SkipUntil(s, i + 1, S)

\* Last index <= i whose character is outside S, 0 when there is none.
RECURSIVE SkipBack(_, _, _)
SkipBack(s, i, S) ==
    IF i < 1 \/ s[i] \notin S THEN i ELSE SkipBack(s, i - 1, S)

\* str.strip()
strip(s) == SubSeq(s, SkipWhile(s, 1, Whitespace), SkipBack(s, Len(s), Whitespace))

\* str.split(sep) for a one-character separator: always at least one piece
RECURSIVE split_on(_, _)
split_on(s, sep) ==
    LET i == SkipUntil(s, 1, {sep})
    IN  IF i > Len(s) THEN <<s>>
        ELSE <<SubSeq(s, 1, i - 1)>> \o split_on(SubSeq(s, i + 1, Len(s)), sep)

\* str.split() without argument: the maximal whitespace-free pieces
RECURSIVE split_words(_)
split_words(s) ==
    LET a == SkipWhile(s, 1, Whitespace)
    IN  IF a > Len(s) THEN <<>>
        ELSE LET b == SkipUntil(s, a, Whitespace)
             IN  <<SubSeq(s, a, b - 1)>> \o split_words(SubSeq(s, b, Len(s)))

\* sep.join(pieces)
RECURSIVE join(_, _)
join(pieces, sep) ==
    IF Len(pieces) = 0 THEN <<>>
    ELSE IF Len(pieces) = 1 THEN pieces[1]
    ELSE pieces[1] \o sep \o join(Tail(pieces), sep)

\* mutant: the pieces are not stripped
StripAll_keep(xs) == xs

\* [f(x) for x in xs if keep(x)] helpers
RECURSIVE StripAll(_)
StripAll(xs) ==
    IF xs = <<>> THEN <<>> ELSE <<strip(Head(xs))>> \o StripAll(Tail(xs))

\* mutant: the segmenter without its `if s.strip()` filter
NonEmptyOnly_keep(xs) == xs

RECURSIVE NonEmptyOnly(_)
NonEmptyOnly(xs) ==
    IF xs = <<>> THEN <<>>
    ELSE IF Head(xs) = <<>> THEN NonEmptyOnly(Tail(xs))
    ELSE <<Head(xs)>> \o NonEmptyOnly(Tail(xs))

\* re.sub(S+, rep, s) when count is at least `least`: every maximal run of
\* characters of S that has `least` or more characters becomes `rep`.
RECURSIVE sub_runs(_, _, _, _)
sub_runs(s, S, least, rep) ==
    IF s = <<>> THEN <<>>
    ELSE IF Head(s) \in S
    THEN LET e == SkipWhile(s, 1, S)
             run == SubSeq(s, 1, e - 1)
         IN  (IF Len(run) >= least THEN rep ELSE run)
                 \o sub_runs(SubSeq(s, e, Len(s)), S, least, rep)
    ELSE <<Head(s)>> \o sub_runs(Tail(s), S, least, rep)

\* str.replace("\r\n", "\n")
RECURSIVE replace_crlf(_)
replace_crlf(s) ==
    IF s = <<>> THEN <<>>
    ELSE IF Len(s) >= 2 /\ s[1] = "\r" /\ s[2] = "\n"
    THEN <<"\n">> \o replace_crlf(SubSeq(s, 3, Len(s)))
    ELSE <<Head(s)>> \o replace_crlf(Tail(s))

\* str.replace("\r", "\n")
\* mutant: lone carriage returns are left in place
replace_cr_keep(s) == s

replace_cr(s) == [i \in 1..Len(s) |-> IF s[i] = "\r" THEN "\n" ELSE s[i]]

-----------------------------------------------------------------------------
(* normalize_whitespace                                                    *)

normalize_whitespace(t) ==
    LET t1 == sub_runs(t, {" ", "\t"}, 1, <<" ">>)
        t2 == replace_cr(replace_crlf(t1))
        t3 == sub_runs(t2, {"\n"}, 3, <<"\n", "\n">>)
        lines == StripAll(split_on(t3, "\n"))
    IN  strip(join(lines, <<"\n">>))

-----------------------------------------------------------------------------
(* remove_page_artifacts                                                   *)

\* regex $ at index i: the end of the string, or just before a final newline
AtEnd(s, i) == i = Len(s) + 1 \/ (i = Len(s) /\ s[i] = "\n")

\* mutant: only bare digits count as a page number
IsPageNumber_plain(s) == Len(s) > 0 /\ \A i \in 1..Len(s) : s[i] \in Digits

\* re.match(r"^-?\s*\d+\s*-?$", s)
IsPageNumber(s) ==
    LET a == IF Len(s) >= 1 /\ s[1] = "-" THEN 2 ELSE 1
        b == SkipWhile(s, a, Whitespace)
        c == SkipWhile(s, b, Digits)
        d == SkipWhile(s, c, Whitespace)
        e == IF d <= Len(s) /\ s[d] = "-" THEN d + 1 ELSE d
    IN  c > b /\ AtEnd(s, e)

\* mutant: every short line is dropped, alphabetic or not
ArtifactKeeps_anyshort(line) ==
    LET stripped == strip(line)
    IN  ~IsPageNumber(stripped) /\ ~(Len(stripped) < ShortLine)

\* the test of one line: TRUE iff the loop appends the line to `cleaned`
ArtifactKeeps(line) ==
    LET stripped == strip(line)
    IN  /\ ~IsPageNumber(stripped)
        /\ ~(Len(stripped) < ShortLine /\ ~isalpha(stripped))

RECURSIVE ArtifactLoop(_)
ArtifactLoop(lines) ==
    IF lines = <<>> THEN <<>>
    ELSE (IF ArtifactKeeps(Head(lines)) THEN <<Head(lines)>> ELSE <<>>)
             \o ArtifactLoop(Tail(lines))

remove_page_artifacts(t) == join(ArtifactLoop(split_on(t, "\n")), <<"\n">>)

-----------------------------------------------------------------------------
(* remove_boilerplate: the line rules                                      *)

\* re.match("^" + literal, s, re.IGNORECASE)
StartsWithCI(s, p) ==
    Len(s) >= Len(p) /\ \A i \in 1..Len(p) : lower(s[i]) = lower(p[i])

\* r"^ISBN[\s:\-]"
IsIsbnLine(s) ==
    /\ StartsWithCI(s, <<"I", "S", "B", "N">>)
    /\ Len(s) >= 5
    /\ s[5] \in Whitespace \cup {":", "-"}

CopyrightMarks ==
    {<<"COPYRIGHT_SIGN">>, <<"(", "c", ")">>,
     <<"C", "o", "p", "y", "r", "i", "g", "h", "t">>}

\* mutant: only the copyright sign marks a copyright line
IsCopyrightLine_glyph(s) == Len(s) >= 2 /\ s[1] = "COPYRIGHT_SIGN" /\ s[2] \in Whitespace

\* r"^(©|\(c\)|Copyright)\s"
IsCopyrightLine(s) ==
    \E m \in CopyrightMarks :
        /\ StartsWithCI(s, m)
        /\ Len(s) > Len(m)
        /\ s[Len(m) + 1] \in Whitespace

PublisherPhrases ==
    {<<"A", "l", "l", " ", "r", "i", "g", "h",
      "t", "s", " ", "r", "e", "s", "e", "r",
      "v", "e", "d">>,
     <<"P", "u", "b", "l", "i", "s", "h", "e",
      "d", " ", "b", "y">>,
     <<"P", "r", "i", "n", "t", "e", "d", " ",
      "i", "n">>,
     <<"F", "i", "r", "s", "t", " ", "e", "d",
      "i", "t", "i", "o", "n">>,
     <<"F", "i", "r", "s", "t", " ", "p", "u",
      "b", "l", "i", "s", "h", "e", "d">>,
     <<"CYR_CAP_VE", "CYR_ES", "CYR_IE", " ", "CYR_PE", "CYR_ER", "CYR_A", "CYR_VE",
      "CYR_A", " ", "CYR_ZE", "CYR_A", "CYR_SHCHA", "CYR_I", "CYR_SHCHA", "CYR_IE",
      "CYR_EN", "CYR_YERU">>,
     <<"CYR_CAP_I", "CYR_ZE", "CYR_DE", "CYR_A", "CYR_TE", "CYR_IE", "CYR_EL", "CYR_SOFT",
      "CYR_ES", "CYR_TE", "CYR_VE", "CYR_O">>,
     <<"CYR_CAP_I", "CYR_ZE", "CYR_DE", "CYR_A", "CYR_EN", "CYR_O">>,
     <<"CYR_CAP_O", "CYR_TE", "CYR_PE", "CYR_IE", "CYR_CHE", "CYR_A", "CYR_TE", "CYR_A",
      "CYR_EN", "CYR_O">>}

\* r"^(All rights reserved|Published by|...|Отпечатано)"
IsPublisherLine(s) == \E p \in PublisherPhrases : StartsWithCI(s, p)

UrlPrefixes ==
    {<<"h", "t", "t", "p", ":", "/", "/">>,
     <<"h", "t", "t", "p", "s", ":", "/", "/">>,
     <<"w", "w", "w", ".">>}

\* r"^(https?://|www\.)\S+$"
IsUrlLine(s) ==
    \E p \in UrlPrefixes :
        /\ StartsWithCI(s, p)
        /\ LET e == SkipUntil(s, Len(p) + 1, Whitespace)
           IN  e > Len(p) + 1 /\ AtEnd(s, e)

\* the class [.\-·…]
TocFill == {".", "-", "MIDDLE_DOT", "ELLIPSIS"}

\* r"\s*\d+\s*$" matched from index i
NumberTail(s, i) ==
    LET b == SkipWhile(s, i, Whitespace)
        c == SkipWhile(s, b, Digits)
        d == SkipWhile(s, c, Whitespace)
    IN  c > b /\ AtEnd(s, d)

\* r"^.{1,60}[.\-·…]{4,}\s*\d+\s*$"
IsTocLine(s) ==
    LET stop == SkipUntil(s, 1, {"\n"})   \* `.` matches all but a newline
    IN  \E k \in 1..TocLead :
            /\ k + TocDots <= Len(s)
            /\ k < stop
            /\ \A i \in (k + 1)..(k + TocDots) : s[i] \in TocFill
            /\ \E e \in (k + TocDots)..Len(s) :
                   /\ \A i \in (k + TocDots + 1)..e : s[i] \in TocFill
                   /\ NumberTail(s, e + 1)

\* the tests of one line: TRUE iff the first loop appends it to `cleaned`
BoilerplateKeeps(line) ==
    LET stripped == strip(line)
    IN  /\ ~IsIsbnLine(stripped)
        /\ ~IsCopyrightLine(stripped)
        /\ ~IsPublisherLine(stripped)
        /\ ~IsUrlLine(stripped)
        /\ ~IsTocLine(stripped)

RECURSIVE LineRules(_)
LineRules(lines) ==
    IF lines = <<>> THEN <<>>
    ELSE (IF BoilerplateKeeps(Head(lines)) THEN <<Head(lines)>> ELSE <<>>)
             \o LineRules(Tail(lines))

-----------------------------------------------------------------------------
(* remove_boilerplate: the block pass and the whole function               *)

\* re.search(r"\d+\s*$", s)
EndsWithNumber(s) ==
    \E i \in 1..Len(s) :
        /\ s[i] \in Digits
        /\ AtEnd(s, SkipWhile(s, SkipWhile(s, i, Digits), Whitespace))

\* len(stripped) < 60 and re.search(r"\d+\s*$", stripped) and stripped
BlockQualifies(line) ==
    LET stripped == strip(line)
    IN  Len(stripped) < TocLineLen /\ EndsWithNumber(stripped) /\ stripped # <<>>

\* mutant: a block of exactly 5 lines is kept
FlushBuf_six(result, buf) == IF Len(buf) < TocBlock + 1 THEN result \o buf ELSE result

\* `if len(buf) < 5: result.extend(buf)`, both in the loop and after it
FlushBuf(result, buf) == IF Len(buf) < TocBlock THEN result \o buf ELSE result

\* mutant: the line that ends a dropped block is dropped with it
BlockStep_swallow(st, line) ==
    IF BlockQualifies(line)
    THEN [result |-> st.result, buf |-> Append(st.buf, line)]
    ELSE [result |-> IF Len(st.buf) < TocBlock
                     THEN Append(st.result \o st.buf, line)
                     ELSE st.result,
          buf |-> <<>>]

\* one iteration of `for line in cleaned`
BlockStep(st, line) ==
    IF BlockQualifies(line)
    THEN [result |-> st.result, buf |-> Append(st.buf, line)]
    ELSE [result |-> Append(FlushBuf(st.result, st.buf), line), buf |-> <<>>]

RECURSIVE BlockLoop(_, _)
BlockLoop(st, lines) ==
    IF lines = <<>> THEN st ELSE BlockLoop(BlockStep(st, Head(lines)), Tail(lines))

BlockPass(cleaned) ==
    LET st == BlockLoop([result |-> <<>>, buf |-> <<>>], cleaned)
    IN  FlushBuf(st.result, st.buf)

\* mutant: the block pass runs before the line rules
remove_boilerplate_blockfirst(t) ==
    join(LineRules(BlockPass(split_on(t, "\n"))), <<"\n">>)

remove_boilerplate(t) ==
    join(BlockPass(LineRules(split_on(t, "\n"))), <<"\n">>)

-----------------------------------------------------------------------------
(* split_into_sentences                                                    *)

\* the lookbehind class [.!?]
SentenceEnd == {".", "!", "?"}

\* mutant: the lookahead knows the Latin capitals only
SentenceStart_latin == Range(UpperLatin) \cup {"\""}

\* the lookahead class [А-ЯA-Z\"]
SentenceStart == Range(UpperCyrillic) \cup Range(UpperLatin) \cup {"\""}

\* mutant: the class without the hyphen and the em-dash
ClauseEnd_nodash == {",", ";", ":"}

\* the lookbehind class [,;:\-—]
ClauseEnd == {",", ";", ":", "-", "EMDASH"}

\* A match of (?<=[After])\s+ starts at i; with `ahead` the match must also be
\* followed by a character of Start, as (?=[Start]) asks.
MatchAt(s, i, After, ahead, Start) ==
    /\ i >= 2
    /\ s[i] \in Whitespace
    /\ s[i - 1] \in After
    /\ ahead => LET e == SkipWhile(s, i, Whitespace)
                IN  e <= Len(s) /\ s[e] \in Start

\* re.split(pattern, s): the pieces between the matches, leftmost match first
RECURSIVE re_split(_, _, _, _)
re_split(s, After, ahead, Start) ==
    IF \A i \in 1..Len(s) : ~MatchAt(s, i, After, ahead, Start) THEN <<s>>
    ELSE LET i == CHOOSE j \in 1..Len(s) :
                      /\ MatchAt(s, j, After, ahead, Start)
                      /\ \A k \in 1..(j - 1) : ~MatchAt(s, k, After, ahead, Start)
             e == SkipWhile(s, i, Whitespace)
         IN  <<SubSeq(s, 1, i - 1)>>
                 \o re_split(SubSeq(s, e, Len(s)), After, ahead, Start)

split_into_sentences(t) ==
    NonEmptyOnly(StripAll(re_split(t, SentenceEnd, TRUE, SentenceStart)))

-----------------------------------------------------------------------------
(* _split_long_sentence                                                    *)

\* mutant: the pieces of a chunk are joined without the space
FlushTo_nosep(cs, xs) == IF xs # <<>> THEN Append(cs, join(xs, <<>>)) ELSE cs

\* mutant: the pieces are joined by two spaces
FlushTo_twospaces(cs, xs) ==
    IF xs # <<>> THEN Append(cs, join(xs, <<" ", " ">>)) ELSE cs

\* `if xs: chunks.append(" ".join(xs))`
FlushTo(cs, xs) == IF xs # <<>> THEN Append(cs, join(xs, <<" ">>)) ELSE cs

\* the test `word_length + len(word) + 1 > max_chars`
\* mutant: without a positive budget no word overflows
WordOverflows_positive(word_length, word, m) ==
    m > 0 /\ word_length + Len(word) + 1 > m

WordOverflows(word_length, word, m) == word_length + Len(word) + 1 > m

\* one iteration of `for word in words`
WordStep(st, word, m) ==
    IF WordOverflows(st.word_length, word, m)
    THEN [chunks |-> FlushTo(st.chunks, st.word_chunk),
          word_chunk |-> <<word>>,
          word_length |-> Len(word)]
    ELSE [chunks |-> st.chunks,
          word_chunk |-> Append(st.word_chunk, word),
          word_length |-> st.word_length + Len(word) + 1]

RECURSIVE WordLoop(_, _, _)
WordLoop(st, words, m) ==
    IF words = <<>> THEN st ELSE WordLoop(WordStep(st, Head(words), m), Tail(words), m)

\* the word tier: lines 225-240, appending to `chunks`
WordTier(cs, part, m) ==
    LET st == WordLoop([chunks |-> cs, word_chunk |-> <<>>, word_length |-> 0],
                       split_words(part), m)
    IN  FlushTo(st.chunks, st.word_chunk)

\* mutant: the budget test is off by one
Overflows_offbyone(new_length, m) == new_length > m + 1

\* mutant: a piece that fills the budget exactly counts as overflowing
Overflows_strict(new_length, m) == new_length >= m

\* the test `new_length > max_chars` of the clause tier and of the chunker
Overflows(new_length, m) == new_length > m

\* mutant: the clause tier never falls back to the word tier
PartTooLong_never(part, m) == FALSE

\* the test `part_length > max_chars`
PartTooLong(part, m) == Len(part) > m

\* one iteration of `for part in parts`
ClauseStep(st, part, m) ==
    IF PartTooLong(part, m)
    THEN [chunks |-> WordTier(FlushTo(st.chunks, st.current), part, m),
          current |-> <<>>,
          current_length |-> IF st.current # <<>> THEN 0 ELSE st.current_length]
    ELSE LET new_length == st.current_length + Len(part)
                               + (IF st.current # <<>> THEN 1 ELSE 0)
         IN  IF Overflows(new_length, m)
             THEN [chunks |-> FlushTo(st.chunks, st.current),
                   current |-> <<part>>,
                   current_length |-> Len(part)]
             ELSE [chunks |-> st.chunks,
                   current |-> Append(st.current, part),
                   current_length |-> new_length]

RECURSIVE ClauseLoop(_, _, _)
ClauseLoop(st, parts, m) ==
    IF parts = <<>> THEN st
    ELSE ClauseLoop(ClauseStep(st, Head(parts), m), Tail(parts), m)

_split_long_sentence(sentence, m) ==
    LET parts == re_split(sentence, ClauseEnd, FALSE, {})
        st == ClauseLoop([chunks |-> <<>>, current |-> <<>>, current_length |-> 0],
                         parts, m)
    IN  FlushTo(st.chunks, st.current)

-----------------------------------------------------------------------------
(* split_into_chunks                                                       *)

\* mutant: no sentence is handed to the splitter
SentenceTooLong_never(sentence, m) == FALSE

\* the test `sentence_length > max_chars`
SentenceTooLong(sentence, m) == Len(sentence) > m

\* mutant: a sentence that starts a new buffer is counted with a separator
SentenceStep_overcount(st, sentence, m) ==
    IF SentenceTooLong(sentence, m)
    THEN [chunks |-> FlushTo(st.chunks, st.current_chunk)
                         \o _split_long_sentence(sentence, m),
          current_chunk |-> <<>>,
          current_length |-> IF st.current_chunk # <<>> THEN 0
                             ELSE st.current_length]
    ELSE LET new_length == st.current_length + Len(sentence)
                               + (IF st.current_chunk # <<>> THEN 1 ELSE 0)
         IN  IF Overflows(new_length, m)
             THEN [chunks |-> FlushTo(st.chunks, st.current_chunk),
                   current_chunk |-> <<sentence>>,
                   current_length |-> Len(sentence) + 1]
             ELSE [chunks |-> st.chunks,
                   current_chunk |-> Append(st.current_chunk, sentence),
                   current_length |-> new_length]

\* one iteration of `for sentence in sentences`
SentenceStep(st, sentence, m) ==
    IF SentenceTooLong(sentence, m)
    THEN [chunks |-> FlushTo(st.chunks, st.current_chunk)
                         \o _split_long_sentence(sentence, m),
          current_chunk |-> <<>>,
          current_length |-> IF st.current_chunk # <<>> THEN 0
                             ELSE st.current_length]
    ELSE LET new_length == st.current_length + Len(sentence)
                               + (IF st.current_chunk # <<>> THEN 1 ELSE 0)
         IN  IF Overflows(new_length, m)
             THEN [chunks |-> FlushTo(st.chunks, st.current_chunk),
                   current_chunk |-> <<sentence>>,
                   current_length |-> Len(sentence)]
             ELSE [chunks |-> st.chunks,
                   current_chunk |-> Append(st.current_chunk, sentence),
                   current_length |-> new_length]

RECURSIVE SentenceLoop(_, _, _)
SentenceLoop(st, ss, m) ==
    IF ss = <<>> THEN st
    ELSE SentenceLoop(SentenceStep(st, Head(ss), m), Tail(ss), m)

\* the function as a whole (the actions below run it one iteration at a time)
split_into_chunks(t, m) ==
    LET st == SentenceLoop([chunks |-> <<>>, current_chunk |-> <<>>,
                            current_length |-> 0],
                           split_into_sentences(t), m)
    IN  FlushTo(st.chunks, st.current_chunk)

-----------------------------------------------------------------------------
(* preprocess, one action per pass                                         *)

\* mutant: the boilerplate pass runs whatever the flag says
AppliesBoilerplate_always(fm) == TRUE

\* `if filter_meta:` of preprocess
AppliesBoilerplate(fm) == fm

\* re.sub(r"\n{2,}", "\n\n", text)
final_cleanup(t) == sub_runs(t, {"\n"}, 2, <<"\n", "\n">>)

\* mutant: after the final cleanup the text is normalized over again
NextPass_again(p, fm) ==
    CASE p = "normalize" -> "artifacts"
      [] p = "artifacts" -> IF fm THEN "boilerplate" ELSE "cleanup"
      [] p = "boilerplate" -> "cleanup"
      [] p = "cleanup" -> "normalize"

\* the order of the statements of preprocess: the position after position p
NextPass(p, fm) ==
    CASE p = "normalize" -> "artifacts"
      [] p = "artifacts" -> IF AppliesBoilerplate(fm) THEN "boilerplate" ELSE "cleanup"
      [] p = "boilerplate" -> "cleanup"
      [] p = "cleanup" -> "split_into_chunks"

Untouched == <<text, max_chars, filter_meta, raised, other, cli, synth>>

\* the locals of _split_long_sentence before its loop, for the given parts
NewSplit(parts) ==
    [parts |-> parts, idx |-> 0, chunks |-> <<>>, current |-> <<>>,
     current_length |-> 0]

Locals == <<sentences, idx, chunks, current_chunk, current_length, splitter>>

\* text = normalize_whitespace(text)
Normalize ==
    /\ pc = "normalize"
    /\ cur' = normalize_whitespace(cur)
    /\ prev' = cur
    /\ pc' = NextPass(pc, filter_meta)
    /\ UNCHANGED <<Untouched, Locals>>

\* text = remove_page_artifacts(text)
RemoveArtifacts ==
    /\ pc = "artifacts"
    /\ cur' = remove_page_artifacts(cur)
    /\ prev' = cur
    /\ pc' = NextPass(pc, filter_meta)
    /\ UNCHANGED <<Untouched, Locals>>

\* text = remove_boilerplate(text)
RemoveBoilerplate ==
    /\ pc = "boilerplate"
    /\ cur' = remove_boilerplate(cur)
    /\ prev' = cur
    /\ pc' = NextPass(pc, filter_meta)
    /\ UNCHANGED <<Untouched, Locals>>

\* text = re.sub(r"\n{2,}", "\n\n", text)
FinalCleanup ==
    /\ pc = "cleanup"
    /\ cur' = final_cleanup(cur)
    /\ prev' = cur
    /\ pc' = NextPass(pc, filter_meta)
    /\ UNCHANGED <<Untouched, Locals>>

-----------------------------------------------------------------------------
(* split_into_chunks, one action per loop iteration                        *)

\* lines 156-160: segment the text, empty buffer
EnterChunks ==
    /\ pc = "split_into_chunks"
    /\ sentences' = split_into_sentences(cur)
    /\ chunks' = <<>>
    /\ current_chunk' = <<>>
    /\ current_length' = 0
    /\ idx' = 0
    /\ pc' = "loop"
    /\ UNCHANGED <<Untouched, cur, prev, splitter>>

\* lines 162-188: one sentence
ChunkSentence ==
    /\ pc = "loop"
    /\ idx < Len(sentences)
    /\ LET st == SentenceStep([chunks |-> chunks, current_chunk |-> current_chunk,
                               current_length |-> current_length],
                              sentences[idx + 1], max_chars)
       IN  /\ chunks' = st.chunks
           /\ current_chunk' = st.current_chunk
           /\ current_length' = st.current_length
    /\ idx' = idx + 1
    /\ UNCHANGED <<Untouched, cur, prev, sentences, pc, splitter>>

\* lines 190-194: the last flush and the return
ReturnChunks ==
    /\ pc = "loop"
    /\ idx = Len(sentences)
    /\ chunks' = FlushTo(chunks, current_chunk)
    /\ pc' = "done"
    /\ UNCHANGED <<Untouched, cur, prev, sentences, idx, current_chunk,
                   current_length, splitter>>

-----------------------------------------------------------------------------
(* _split_long_sentence, one action per loop iteration                     *)

\* lines 207-213: cut the sentence into parts, empty buffer
EnterSplit ==
    /\ pc = "_split_long_sentence"
    /\ splitter' = NewSplit(re_split(cur, ClauseEnd, FALSE, {}))
    /\ pc' = "clause_loop"
    /\ UNCHANGED <<Untouched, cur, prev, sentences, idx, chunks, current_chunk,
                   current_length>>

\* lines 215-253: one part
ClausePart ==
    /\ pc = "clause_loop"
    /\ splitter.idx < Len(splitter.parts)
    /\ LET st == ClauseStep([chunks |-> splitter.chunks,
                             current |-> splitter.current,
                             current_length |-> splitter.current_length],
                            splitter.parts[splitter.idx + 1], max_chars)
       IN  splitter' = [splitter EXCEPT !.chunks = st.chunks,
                                        !.current = st.current,
                                        !.current_length = st.current_length,
                                        !.idx = splitter.idx + 1]
    /\ UNCHANGED <<Untouched, cur, prev, sentences, idx, chunks, current_chunk,
                   current_length, pc>>

\* lines 255-258: the last flush and the return
ReturnSplit ==
    /\ pc = "clause_loop"
    /\ splitter.idx = Len(splitter.parts)
    /\ chunks' = FlushTo(splitter.chunks, splitter.current)
    /\ pc' = "done"
    /\ UNCHANGED <<Untouched, cur, prev, sentences, idx, current_chunk,
                   current_length, splitter>>

\* preprocess as a whole (the actions above run it one statement at a time)
preprocess(t, m, fm) ==
    LET a == remove_page_artifacts(normalize_whitespace(t))
        b == IF AppliesBoilerplate(fm) THEN remove_boilerplate(a) ELSE a
    IN  split_into_chunks(final_cleanup(b), m)

\* normalize_whitespace applied to its own result
NormalizeAgain ==
    /\ pc = "artifacts"
    /\ cur' = normalize_whitespace(cur)
    /\ prev' = cur
    /\ pc' = "done"
    /\ UNCHANGED <<Untouched, Locals>>

-----------------------------------------------------------------------------
(* A second call of preprocess, running beside the first                   *)

\* the frame of a call that has just been entered
NewCall(t, m, fm) ==
    [text |-> t, max_chars |-> m, filter_meta |-> fm, pc |-> "normalize",
     cur |-> t, sentences |-> <<>>, idx |-> 0, chunks |-> <<>>,
     current_chunk |-> <<>>, current_length |-> 0]

\* no second call: a frame that has nothing left to run
NoCall == [NewCall(<<>>, 1, FALSE) EXCEPT !.pc = "done"]

\* mutant: the text is kept in a module-level name that all calls share
OwnText_global(r) == cur

\* the name `text` is a parameter, local to the call that rebinds it
OwnText(r) == r.cur

\* the frame r after the next statement of its call
StepOf(r) ==
    CASE r.pc = "normalize" ->
             [r EXCEPT !.cur = normalize_whitespace(OwnText(r)),
                       !.pc = NextPass(r.pc, r.filter_meta)]
      [] r.pc = "artifacts" ->
             [r EXCEPT !.cur = remove_page_artifacts(OwnText(r)),
                       !.pc = NextPass(r.pc, r.filter_meta)]
      [] r.pc = "boilerplate" ->
             [r EXCEPT !.cur = remove_boilerplate(OwnText(r)),
                       !.pc = NextPass(r.pc, r.filter_meta)]
      [] r.pc = "cleanup" ->
             [r EXCEPT !.cur = final_cleanup(OwnText(r)),
                       !.pc = NextPass(r.pc, r.filter_meta)]
      [] r.pc = "split_into_chunks" ->
             [r EXCEPT !.sentences = split_into_sentences(OwnText(r)),
                       !.chunks = <<>>, !.current_chunk = <<>>,
                       !.current_length = 0, !.idx = 0, !.pc = "loop"]
      [] r.pc = "loop" /\ r.idx < Len(r.sentences) ->
             LET st == SentenceStep([chunks |-> r.chunks,
                                     current_chunk |-> r.current_chunk,
                                     current_length |-> r.current_length],
                                    r.sentences[r.idx + 1], r.max_chars)
             IN  [r EXCEPT !.chunks = st.chunks,
                           !.current_chunk = st.current_chunk,
                           !.current_length = st.current_length,
                           !.idx = r.idx + 1]
      [] r.pc = "loop" /\ r.idx = Len(r.sentences) ->
             [r EXCEPT !.chunks = FlushTo(r.chunks, r.current_chunk),
                       !.pc = "done"]

\* the second call runs its next statement
OtherStep ==
    /\ other.pc # "done"
    /\ other' = StepOf(other)
    /\ UNCHANGED <<text, max_chars, filter_meta, pc, cur, sentences, idx, chunks,
                   current_chunk, current_length, raised, prev, splitter, cli,
                   synth>>

-----------------------------------------------------------------------------
(* main of cli.py                                                          *)

\* an optional command-line argument: absent (None) or one value
None == <<>>
Some(v) == <<v>>

\* `if args.max_chunk_chars`: neither None nor 0
Truthy(opt) == opt # None /\ opt[1] # 0

ENGINES == {"silero", "xtts", "piper", "kokoro", "chatterbox"}

FallbackChunkChars == 500        \* .get("default", 500) and the else branch
DefaultMaxChunkChars == 1000     \* max_chunk_chars of preprocess, before main sets it

MAX_CHUNK_CHARS ==
    [e \in ENGINES |->
        CASE e = "silero" -> [ru |-> 500, en |-> 250]
          [] e = "xtts" -> [default |-> 170]
          [] e = "piper" -> [default |-> 500]
          [] e = "kokoro" -> [default |-> 400]
          [] e = "chatterbox" -> [default |-> 400]]

\* dict.get(key, default)
Get(d, key, default) == IF key \in DOMAIN d THEN d[key] ELSE default

\* `max_chars` of main
MainMaxChars(args) ==
    IF Truthy(args.max_chunk_chars) THEN args.max_chunk_chars[1]
    ELSE IF args.engine \in DOMAIN MAX_CHUNK_CHARS
         THEN Get(MAX_CHUNK_CHARS[args.engine], args.lang,
                  Get(MAX_CHUNK_CHARS[args.engine], "default", FallbackChunkChars))
         ELSE FallbackChunkChars

\* list_languages() of each engine, among the languages a run is given
EngineLanguages(engine) ==
    CASE engine = "silero" -> {"ru", "en"}
      [] engine = "piper" -> {"en", "ru"}
      [] engine = "kokoro" -> {"en", "fr"}
      [] engine = "xtts" -> {"en", "ru", "fr"}
      [] engine = "chatterbox" -> {"en", "ru", "fr"}

\* VOICES and DEFAULT_VOICES of synthesize.py, two voices of each language
SileroVoices(lang) == IF lang = "ru" THEN {"aidar", "baya"} ELSE {"en_0", "en_1"}

SileroDefaultVoice(lang) == IF lang = "ru" THEN "aidar" ELSE "en_0"

\* `voice = args.voice or SILERO_DEFAULT_VOICES[args.lang]`
SileroVoice(args) ==
    IF args.voice # None THEN args.voice[1] ELSE SileroDefaultVoice(args.lang)

\* the line the engine branch prints before it returns 1 without synthesizing,
\* or None when language and voice pass the checks
EngineRejects(args) ==
    IF args.lang \notin EngineLanguages(args.engine)
    THEN Some("Error: Language not supported")
    ELSE IF args.engine = "silero" /\ SileroVoice(args) \notin SileroVoices(args.lang)
         THEN Some("Error: Voice not available")
         ELSE None

\* main has returned (or exited) with the status, after printing the lines
Returned(run, status, lines) ==
    [run EXCEPT !.pc = "returned", !.status = status,
                !.errors = run.errors \o lines]

NewMain(args) == [pc |-> "main", args |-> args, status |-> -1, errors |-> <<>>]

\* no run of main: preprocess is called by someone else
NoMain ==
    [NewMain([input |-> None, list_voices |-> FALSE, engine |-> "silero",
              lang |-> "ru", voice |-> None, max_chunk_chars |-> None])
        EXCEPT !.pc = "returned", !.status = 0]

\* parse_args, --list-voices and the required input
MainParse ==
    /\ cli.pc = "main"
    /\ cli' = IF cli.args.list_voices THEN Returned(cli, 0, <<>>)
              ELSE IF cli.args.input = None
                   THEN Returned(cli, 2, <<"error: the following arguments are required: input">>)
                   ELSE [cli EXCEPT !.pc = "extract"]
    /\ UNCHANGED <<text, max_chars, filter_meta, pc, cur, prev, raised, other,
                   Locals, synth>>

\* what extract_text does with the input file
ExtractOutcomes == {"text", "FileNotFoundError", "ValueError"}

\* extract_text, the choice of max_chars and the call of preprocess
MainExtract ==
    /\ cli.pc = "extract"
    /\ pc = "main"
    /\ \E outcome \in ExtractOutcomes :
           IF outcome = "text"
           THEN /\ cli' = [cli EXCEPT !.pc = "preprocess"]
                /\ max_chars' = MainMaxChars(cli.args)
                /\ pc' = "normalize"
           ELSE /\ cli' = Returned(cli, 1, <<"Error: " \o outcome>>)
                /\ UNCHANGED <<max_chars, pc>>
    /\ UNCHANGED <<text, filter_meta, cur, prev, raised, other, Locals, synth>>

\* `if not chunks`, once preprocess has returned
MainCheck ==
    /\ cli.pc = "preprocess"
    /\ pc = "done"
    /\ cli' = IF chunks = <<>>
              THEN Returned(cli, 1, <<"Error: No text chunks to process">>)
              ELSE [cli EXCEPT !.pc = "engine"]
    /\ UNCHANGED <<text, max_chars, filter_meta, pc, cur, prev, raised, other,
                   Locals, synth>>

\* what synthesize_chunks of the engine does
SynthesisOutcomes == {"files", "Exception"}

\* the branch of the engine: its checks, the synthesis, the final report
MainSynthesize ==
    /\ cli.pc = "engine"
    /\ \E outcome \in SynthesisOutcomes :
           cli' = IF EngineRejects(cli.args) # None
                  THEN Returned(cli, 1, EngineRejects(cli.args))
                  ELSE IF outcome = "Exception"
                       THEN Returned(cli, 1, <<"Error during synthesis">>)
                       ELSE Returned(cli, 0, <<>>)
    /\ UNCHANGED <<text, max_chars, filter_meta, pc, cur, prev, raised, other,
                   Locals, synth>>

-----------------------------------------------------------------------------
(* SileroTTS.synthesize_chunks of synthesize.py                            *)

\* str(n) as a sequence of decimal digits
RECURSIVE Decimal(_)
Decimal(n) ==
    LET d == <<"0", "1", "2", "3", "4", "5", "6", "7", "8", "9">>[(n % 10) + 1]
    IN  IF n < 10 THEN <<d>> ELSE Append(Decimal(n \div 10), d)

\* the digits padded with zeros on the left to the width
RECURSIVE ZeroPad(_, _)
ZeroPad(digits, width) ==
    IF Len(digits) >= width THEN digits ELSE ZeroPad(<<"0">> \o digits, width)

NameWidth == 4       \* {chunk_idx:04d}

\* f"chunk_{chunk_idx:04d}.wav"
ChunkName(chunk_idx) ==
    <<"chunk_">> \o ZeroPad(Decimal(chunk_idx), NameWidth) \o <<".wav">>

\* `not chunk.strip()`
IsBlank(chunk) == strip(chunk) = <<>>

\* mutant: an existing file is skipped whatever its size
ResumeSkips_anysize(resume, file) == resume /\ file # None

\* `resume` and `output_path.exists() and output_path.stat().st_size > 0`,
\* the file being None when absent and Some(st_size) otherwise
ResumeSkips(resume, file) == resume /\ file # None /\ file[1] > 0

\* how SileroTTS.synthesize(chunk, output_path, voice) can end for self.language
\* "ru": ValueError for an unknown voice, else the file written or an
\* exception of the model
SynthesizeOutcomes(voice) ==
    IF voice # None /\ voice[1] \notin SileroVoices("ru") THEN {"ValueError"}
    ELSE {"written", "RuntimeError"}

\* the sizes save_wav can leave in a file it has written
WrittenSizes == {1, 2}

\* `if progress_callback: progress_callback(i + 1, total)`
Progress(run, position) ==
    IF run.callback THEN Append(run.progress, <<position, run.total>>)
    ELSE run.progress

NewSynth(chunks_, voice, resume, callback, files) ==
    [pc |-> "synthesize_chunks", chunks |-> chunks_, voice |-> voice,
     resume |-> resume, callback |-> callback, files |-> files,
     i |-> 0, chunk_idx |-> 0, total |-> 0, wav_files |-> <<>>, skipped |-> 0,
     progress |-> <<>>, calls |-> <<>>]

\* no call of synthesize_chunks
NoSynth ==
    [NewSynth(<<>>, None, FALSE, FALSE, <<>>) EXCEPT !.pc = "returned"]

Others == <<text, max_chars, filter_meta, pc, cur, prev, raised, other, Locals,
            cli>>

\* lines 133-139: output_dir.mkdir, which succeeds or raises OSError, and
\* the locals before the loop
SynthEnter ==
    /\ synth.pc = "synthesize_chunks"
    /\ \E made \in BOOLEAN :
           synth' = IF made
                    THEN [synth EXCEPT !.pc = "loop", !.total = Len(synth.chunks)]
                    ELSE [synth EXCEPT !.pc = "raised"]
    /\ UNCHANGED Others

\* lines 141-164: one iteration of `for i, chunk in enumerate(chunks)`
SynthChunk ==
    /\ synth.pc = "loop"
    /\ synth.i < Len(synth.chunks)
    /\ LET chunk == synth.chunks[synth.i + 1]
           output_path == ChunkName(synth.chunk_idx)
           counted == [synth EXCEPT !.i = synth.i + 1,
                                    !.chunk_idx = synth.chunk_idx + 1,
                                    !.wav_files = Append(synth.wav_files, output_path),
                                    !.progress = Progress(synth, synth.i + 1)]
       IN  IF IsBlank(chunk)
           THEN synth' = [synth EXCEPT !.i = synth.i + 1]
           ELSE IF ResumeSkips(synth.resume, synth.files[output_path])
                THEN synth' = [counted EXCEPT !.skipped = synth.skipped + 1]
                ELSE \E outcome \in SynthesizeOutcomes(synth.voice) :
                     \E size \in WrittenSizes :
                         synth' =
                             IF outcome = "written"
                             THEN [counted EXCEPT
                                      !.files[output_path] = Some(size),
                                      !.calls = Append(synth.calls,
                                                       <<chunk, output_path>>)]
                             ELSE [synth EXCEPT !.pc = "raised",
                                                !.chunk_idx = synth.chunk_idx + 1]
    /\ UNCHANGED Others

\* line 166: return wav_files, skipped
SynthReturn ==
    /\ synth.pc = "loop"
    /\ synth.i = Len(synth.chunks)
    /\ synth' = [synth EXCEPT !.pc = "returned"]
    /\ UNCHANGED Others

\* another process removes a file of the output directory while the loop
\* runs; removing it between exists() and stat() raises the OSError of
\* lines 157-158, after which the chunk is synthesized as for an absent file
FileVanishes ==
    /\ synth.pc = "loop"
    /\ \E name \in DOMAIN synth.files :
           /\ synth.files[name] # None
           /\ synth' = [synth EXCEPT !.files[name] = None]
    /\ UNCHANGED Others

-----------------------------------------------------------------------------
(* Inputs                                                                  *)

MaxLen == 6          \* longest text given to split_into_chunks
MaxBudget == 4       \* largest max_chars
MaxNormLen == 6      \* longest text given to normalize_whitespace
MaxLines == 3        \* most lines of a text given to preprocess
MaxTocLines == 6     \* most lines of a text given to remove_boilerplate
MaxArtLines == 3     \* most lines of a text given to remove_page_artifacts
MaxSentences == 3    \* most sentences of a text made of whole sentences
MaxPairLines == 2    \* most lines of a text given to one of two calls
MaxClauseLen == 5    \* longest sentence given to _split_long_sentence
MaxRuleLines == 3    \* most lines of a text of copyright-page lines
MaxBlockLines == 6   \* most lines of a text of short contents lines
MaxSentLen == 4      \* longest text given to split_into_sentences
MaxBufLen == 5       \* longest text whose buffers are followed
MaxCliLines == 2     \* most lines of a text extracted for main
MaxSynthChunks == 3  \* most chunks given to synthesize_chunks

\* all strings over A of length at most n
Strings(A, n) == UNION {[1..k -> A] : k \in 0..n}

\* all texts of at most n lines, each line taken from lib
TextsOf(lib, n) == {join(ls, <<"\n">>) : ls \in Strings(lib, n)}

\* a word character, a capital, a sentence end, a clause end, a blank
ChunkAlphabet == {"a", "B", ".", ",", " "}

\* max_chars: -1 and 0 are the invalid budgets
Budgets == (-1)..MaxBudget

NormAlphabet == {"a", " ", "\t", "\r", "\n"}

\* lines of a book: a page number, a dashed page number, an ISBN line, prose
\* of two sentences, a two-letter line, a blank line
BookLines ==
    {<<"7">>, <<"-", " ", "4", " ", "-">>, <<"I", "S", "B", "N", " ", "9">>,
     <<"A", "a", ".", " ", "B", ",", " ", "c">>, <<"x", "x">>, <<>>}

\* a 60-character line ending in a digit
LongNumbered == [i \in 1..TocLineLen |-> IF i = TocLineLen THEN "1" ELSE "x"]

\* lines of a contents page: a short numbered entry, a blank line, a numbered
\* line of 60 characters, one of 59, a bare URL that ends in a digit
TocLines ==
    {<<"a", " ", "1">>, <<>>, LongNumbered, Tail(LongNumbered),
     <<"w", "w", "w", ".", "a", "1">>}

\* lines of a scanned page: a page number, a dashed one, an untrimmed one with
\* one dash, two letters and a blank, a letter and a digit, a blank line,
\* three characters that are not all letters, a lone dash
ArtifactLines ==
    {<<"1", "7">>, <<"-", " ", "4", " ", "-">>, <<" ", "7", "-">>,
     <<"a", "b", " ">>, <<"a", "1">>, <<>>, <<"a", "1", "b">>, <<"-">>}

\* "Hello world.", "This is a test!" and the Russian for "No?": sentences of
\* 12, 15 and 4 characters
HelloWorld == <<"H", "e", "l", "l", "o", " ", "w", "o", "r", "l", "d", ".">>

ThisIsATest ==
    <<"T", "h", "i", "s", " ", "i", "s", " ", "a", " ", "t", "e", "s", "t", "!">>

Net == <<"CYR_CAP_EN", "CYR_IE", "CYR_TE", "?">>

ExampleSentences == {HelloWorld, ThisIsATest, Net}

\* all texts of at most n of these sentences, one space between two
SentenceTexts(n) == {join(ss, <<" ">>) : ss \in Strings(ExampleSentences, n)}

\* the budgets that one of the sentences fills exactly
ExactBudgets == {Len(x) : x \in ExampleSentences}

\* a word character, the five clause marks, a blank
ClauseAlphabet == {"a", ",", ";", ":", "-", "EMDASH", " "}

\* what split_into_chunks hands to the splitter: a trimmed sentence longer
\* than the budget
IsLongSentence(x, m) == strip(x) = x /\ Len(x) > m

\* lines of a copyright page: the sign, "(C)" and the word in capitals, each
\* followed by a blank or a tab; the sign, "(c)" and the word followed by a
\* letter or by nothing; an untrimmed notice; a line of prose
RuleLines ==
    {<<"COPYRIGHT_SIGN", " ", "a">>,
     <<"(", "C", ")", "\t", "a">>,
     <<"C", "O", "P", "Y", "R", "I", "G", "H", "T", " ", "a">>,
     <<"COPYRIGHT_SIGN", "a">>,
     <<"(", "c", ")">>,
     <<"C", "o", "p", "y", "r", "i", "g", "h", "t", "e", "d">>,
     <<" ", "COPYRIGHT_SIGN", " ", "a", " ">>,
     <<"a", "b">>}

\* short lines of a contents page: a numbered entry, a blank line, a heading
\* with a blank at its end, a bare URL and an ISBN line (both removed by the
\* line rules)
BlockLines ==
    {<<"a", " ", "1">>, <<>>, <<"a", "b", " ">>, <<"w", "w", "w", ".", "a">>,
     <<"I", "S", "B", "N", " ", "9">>}

\* the three sentence ends, a blank and a newline, a small letter, a digit,
\* a Latin capital, the Cyrillic capitals Ya and Io, a quote mark
SentAlphabet ==
    {".", "!", "?", " ", "\n", "a", "1", "B", "CYR_CAP_YA", "CYR_CAP_IO", "\""}

\* lines of the texts of two calls that run side by side
PairLines ==
    {<<"7">>, <<"I", "S", "B", "N", " ", "9">>,
     <<"A", "a", ".", " ", "B", ",", " ", "c">>}

\* the budget of both: the second sentence of the prose line exceeds it
PairBudgets == {3}

\* the arguments and the locals of the first call
Begin(entry, texts, budgets, flags) ==
    /\ text \in texts
    /\ max_chars \in budgets
    /\ filter_meta \in flags
    /\ pc = entry
    /\ cur = text
    /\ prev = text
    /\ sentences = <<>>
    /\ idx = 0
    /\ chunks = <<>>
    /\ current_chunk = <<>>
    /\ current_length = 0
    /\ raised = FALSE
    /\ splitter = NewSplit(<<>>)

\* one call, no second one, made by a caller other than main
Start(entry, texts, budgets, flags) ==
    Begin(entry, texts, budgets, flags) /\ other = NoCall /\ cli = NoMain
        /\ synth = NoSynth

-----------------------------------------------------------------------------
(* Specifications                                                          *)

\* preprocess(text, max_chars, filter_meta)
Init == Start("normalize", TextsOf(BookLines, MaxLines), Budgets, BOOLEAN)

Next ==
    \/ Normalize
    \/ RemoveArtifacts
    \/ RemoveBoilerplate
    \/ FinalCleanup
    \/ EnterChunks
    \/ ChunkSentence
    \/ ReturnChunks

Spec == Init /\ [][Next]_vars

\* split_into_chunks(text, max_chars)
InitChunk ==
    Start("split_into_chunks", Strings(ChunkAlphabet, MaxLen), Budgets, {FALSE})

NextChunk == EnterChunks \/ ChunkSentence \/ ReturnChunks

SpecChunk == InitChunk /\ [][NextChunk]_vars

\* normalize_whitespace(normalize_whitespace(text))
InitNorm == Start("normalize", Strings(NormAlphabet, MaxNormLen), {MaxBudget}, {FALSE})

NextNorm == Normalize \/ NormalizeAgain

SpecNorm == InitNorm /\ [][NextNorm]_vars

\* remove_boilerplate(text)
InitBoiler == Start("boilerplate", TextsOf(TocLines, MaxTocLines), {MaxBudget}, {TRUE})

NextBoiler == RemoveBoilerplate

SpecBoiler == InitBoiler /\ [][NextBoiler]_vars

\* remove_page_artifacts(text)
InitArtifacts ==
    Start("artifacts", TextsOf(ArtifactLines, MaxArtLines), {MaxBudget}, {FALSE})

NextArtifacts == RemoveArtifacts

SpecArtifacts == InitArtifacts /\ [][NextArtifacts]_vars

\* split_into_chunks on texts of whole sentences
InitExample ==
    Start("split_into_chunks", SentenceTexts(MaxSentences), ExactBudgets, {FALSE})

NextExample == EnterChunks \/ ChunkSentence \/ ReturnChunks

SpecExample == InitExample /\ [][NextExample]_vars

\* two calls of preprocess, their statements interleaved in every order
InitPair ==
    /\ Begin("normalize", TextsOf(PairLines, MaxPairLines), PairBudgets, BOOLEAN)
    /\ other \in {NewCall(t, m, fm) : t \in TextsOf(PairLines, MaxPairLines),
                                      m \in PairBudgets, fm \in BOOLEAN}
    /\ cli = NoMain
    /\ synth = NoSynth

NextPair == Next \/ OtherStep

SpecPair == InitPair /\ [][NextPair]_vars

\* remove_boilerplate(text) on copyright pages
InitRules ==
    Start("boilerplate", TextsOf(RuleLines, MaxRuleLines), {MaxBudget}, {TRUE})

NextRules == RemoveBoilerplate

SpecRules == InitRules /\ [][NextRules]_vars

\* remove_boilerplate(text) on short contents lines
InitBlock ==
    Start("boilerplate", TextsOf(BlockLines, MaxBlockLines), {MaxBudget}, {TRUE})

NextBlock == RemoveBoilerplate

SpecBlock == InitBlock /\ [][NextBlock]_vars

\* split_into_sentences(text), as split_into_chunks calls it
InitSent ==
    Start("split_into_chunks", Strings(SentAlphabet, MaxSentLen), {MaxBudget}, {FALSE})

NextSent == EnterChunks \/ ChunkSentence \/ ReturnChunks

SpecSent == InitSent /\ [][NextSent]_vars

\* the lines of an extracted book: a page number, prose, a blank line
CliLines == {<<"7">>, <<"A", "a", ".", " ", "B", ",", " ", "c">>, <<>>}

\* the command lines of main
CliArgs ==
    [input : {None, Some("book.pdf")}, list_voices : BOOLEAN, engine : ENGINES,
     lang : {"ru", "en", "fr", "xx"}, voice : {None, Some("baya"), Some("nobody")},
     max_chunk_chars : {None, Some(0), Some(MaxBudget)}]

\* main(), the text being what extract_text finds in the input file
InitCli ==
    /\ Begin("main", TextsOf(CliLines, MaxCliLines), {DefaultMaxChunkChars}, {FALSE})
    /\ other = NoCall
    /\ cli \in {NewMain(args) : args \in CliArgs}
    /\ synth = NoSynth

NextCli ==
    \/ MainParse
    \/ MainExtract
    \/ Normalize
    \/ RemoveArtifacts
    \/ FinalCleanup
    \/ EnterChunks
    \/ ChunkSentence
    \/ ReturnChunks
    \/ MainCheck
    \/ MainSynthesize

SpecCli == InitCli /\ [][NextCli]_vars

\* the chunks given to synthesize_chunks: text, blanks, nothing
SynthChunks == {<<"a">>, <<" ">>, <<>>}

\* the output directory before the call: each file absent, empty or not
OutputDirs ==
    [{ChunkName(n) : n \in 0..(MaxSynthChunks - 1)} -> {None, Some(0), Some(1)}]

\* SileroTTS("ru").synthesize_chunks(chunks, output_dir, voice,
\* progress_callback, resume)
InitSynth ==
    /\ Begin("idle", {<<>>}, {DefaultMaxChunkChars}, {FALSE})
    /\ other = NoCall
    /\ cli = NoMain
    /\ synth \in {NewSynth(cs, v, r, cb, fs) :
                     cs \in Strings(SynthChunks, MaxSynthChunks),
                     v \in {None, Some("nobody")}, r \in BOOLEAN,
                     cb \in BOOLEAN, fs \in OutputDirs}

NextSynth ==
    \/ SynthEnter
    \/ SynthChunk
    \/ SynthReturn
    \/ FileVanishes

SpecSynth == InitSynth /\ [][NextSynth]_vars

\* split_into_chunks(text, max_chars) and _split_long_sentence(sentence,
\* max_chars), each followed through its loop
InitBuffers ==
    /\ \/ Begin("split_into_chunks", Strings(ChunkAlphabet, MaxBufLen), Budgets,
                {FALSE})
       \/ /\ Begin("_split_long_sentence", Strings(ChunkAlphabet, MaxBufLen),
                   1..MaxBudget, {FALSE})
          /\ IsLongSentence(text, max_chars)
    /\ other = NoCall
    /\ cli = NoMain
    /\ synth = NoSynth

NextBuffers ==
    \/ EnterChunks
    \/ ChunkSentence
    \/ ReturnChunks
    \/ EnterSplit
    \/ ClausePart
    \/ ReturnSplit

SpecBuffers == InitBuffers /\ [][NextBuffers]_vars

\* _split_long_sentence(sentence, max_chars)
InitClause ==
    /\ Begin("_split_long_sentence", Strings(ClauseAlphabet, MaxClauseLen),
             1..MaxBudget, {FALSE})
    /\ IsLongSentence(text, max_chars)
    /\ other = NoCall
    /\ cli = NoMain
    /\ synth = NoSynth

NextClause == EnterSplit \/ ClausePart \/ ReturnSplit

SpecClause == InitClause /\ [][NextClause]_vars

-----------------------------------------------------------------------------
(* Properties                                                              *)

WhitespaceFree(s) == \A i \in 1..Len(s) : s[i] \notin Whitespace

\* the words of the chunks, in order
RECURSIVE WordsOf(_)
WordsOf(cs) ==
    IF cs = <<>> THEN <<>> ELSE split_words(Head(cs)) \o WordsOf(Tail(cs))

\* the elements of ws that are longer than m, in order
RECURSIVE LongerThan(_, _)
LongerThan(ws, m) ==
    IF ws = <<>> THEN <<>>
    ELSE (IF Len(Head(ws)) > m THEN <<Head(ws)>> ELSE <<>>) \o LongerThan(Tail(ws), m)

\* C1: with a positive budget every chunk of split_into_chunks has at most
\* max_chars characters, unless it is one whitespace-free token that is itself
\* longer than max_chars.
ChunkBudgetInvariant ==
    max_chars > 0 =>
        \A i \in 1..Len(chunks) :
            Len(chunks[i]) <= max_chars \/ WhitespaceFree(chunks[i])

\* a budget forced a split and a chunk of several pieces fills it exactly
ChunkBudgetWitness ==
    /\ pc = "done"
    /\ max_chars > 0
    /\ Len(chunks) >= 2
    /\ \E i \in 1..Len(chunks) :
           Len(chunks[i]) = max_chars /\ ~WhitespaceFree(chunks[i])

\* C2: with a positive budget the words of the returned chunks, taken in
\* order, are the words of the input text: none lost, doubled or moved.
OrderPreserved ==
    (pc = "done" /\ max_chars > 0) => WordsOf(chunks) = split_words(text)

\* a short sentence was packed and a long one went through the splitter
OrderPreservedWitness ==
    /\ pc = "done"
    /\ max_chars > 0
    /\ Len(chunks) >= 3
    /\ \E i \in 1..Len(sentences) : SentenceTooLong(sentences[i], max_chars)
    /\ \E i \in 1..Len(sentences) : ~SentenceTooLong(sentences[i], max_chars)

\* C3: no chunk is empty or whitespace-only, whatever the text and the budget.
NoEmptyChunks == \A i \in 1..Len(chunks) : strip(chunks[i]) # <<>>

\* chunks came out of a text that begins and ends with whitespace
NoEmptyChunksWitness ==
    /\ pc = "done"
    /\ Len(chunks) >= 2
    /\ text[1] \in Whitespace
    /\ text[Len(text)] \in Whitespace

\* C4: normalize_whitespace applied to its own result changes nothing.
NormalizeIdempotent == pc = "done" => cur = prev

\* C5: a call with max_chars <= 0 is rejected: it never enters the loop, never
\* returns, and produces no chunk.
InvalidBudgetFailsFast ==
    max_chars <= 0 => (pc \notin {"loop", "done"} /\ chunks = <<>>)

\* C6: every whitespace-free token longer than max_chars comes out as one
\* chunk that is exactly that token, in the order of the text, and nothing is
\* raised: no chunk holds such a token together with anything else.
LongTokenFloor ==
    pc = "done" =>
        /\ ~raised
        /\ \A i \in 1..Len(chunks) :
               LongerThan(split_words(chunks[i]), max_chars) # <<>>
                   => <<chunks[i]>> = split_words(chunks[i])
        /\ LongerThan(chunks, max_chars) = LongerThan(split_words(text), max_chars)

\* a text of several words, one of them longer than a positive budget
LongTokenFloorWitness ==
    /\ pc = "done"
    /\ max_chars > 0
    /\ Len(split_words(text)) >= 2
    /\ \E i \in 1..Len(chunks) : Len(chunks[i]) > max_chars

IsbnLine == <<"I", "S", "B", "N", " ", "9">>

\* the lines of the input that no pass lets through: blank lines, page
\* numbers and, with filter_meta, the ISBN line
Vanishing ==
    {<<>>, <<"7">>, <<"-", " ", "4", " ", "-">>}
        \cup (IF filter_meta THEN {IsbnLine} ELSE {})

AllLinesFiltered == \A l \in Range(split_on(text, "\n")) : l \in Vanishing

\* C7: preprocess of an empty input, or of an input all of whose lines the
\* filters remove, returns the empty sequence and raises nothing.
EmptyInEmptyOut ==
    (pc = "done" /\ AllLinesFiltered) => (chunks = <<>> /\ ~raised)

\* a text of page-number lines only has been processed
EmptyInEmptyOutWitness ==
    /\ pc = "done"
    /\ AllLinesFiltered
    /\ <<"7">> \in Range(split_on(text, "\n"))
    /\ <<"-", " ", "4", " ", "-">> \in Range(split_on(text, "\n"))

\* a statement of the call is ready to run
Runnable ==
    \/ pc \in {"normalize", "artifacts", "boilerplate", "cleanup", "split_into_chunks"}
    \/ pc = "loop" /\ idx <= Len(sentences)

\* the statements left to run, at most: a text has no more sentences than
\* characters
Variant ==
    CASE pc = "normalize" -> Len(text) + 7
      [] pc = "artifacts" -> Len(text) + 6
      [] pc = "boilerplate" -> Len(text) + 5
      [] pc = "cleanup" -> Len(text) + 4
      [] pc = "split_into_chunks" -> Len(text) + 3
      [] pc = "loop" -> Len(sentences) - idx + 1
      [] pc = "done" -> 0

\* C8: every call of preprocess reaches its return and raises nothing: until
\* the return a statement is always ready to run, and every step taken lowers
\* the number of statements left, which is never negative.
Terminates ==
    /\ [](~raised /\ Variant >= 0 /\ (pc # "done" => Runnable))
    /\ [][Variant' < Variant]_vars

\* a text without space or punctuation, longer than a positive budget, has
\* come out as the one chunk it is
TerminatesWitness ==
    /\ pc = "done"
    /\ ~raised
    /\ max_chars > 0
    /\ text = <<"x", "x">>
    /\ Len(text) > max_chars
    /\ chunks = <<text>>

\* a line of a contents block: non-empty, under 60 characters once trimmed,
\* ending in a digit
Numbered(line) ==
    LET t == strip(line)
    IN  t # <<>> /\ Len(t) < TocLineLen /\ t[Len(t)] \in Digits

\* line i lies in a run of 5 or more consecutive numbered lines
InLongRun(ls, i) ==
    \E a \in 1..i : \E b \in i..Len(ls) :
        /\ b - a + 1 >= TocBlock
        /\ \A k \in a..b : Numbered(ls[k])

\* the lines from index i on that lie in no such run
RECURSIVE OutsideLongRuns(_, _)
OutsideLongRuns(ls, i) ==
    IF i > Len(ls) THEN <<>>
    ELSE (IF InLongRun(ls, i) THEN <<>> ELSE <<ls[i]>>) \o OutsideLongRuns(ls, i + 1)

\* C9: of the lines left by the line rules, remove_boilerplate drops every
\* maximal run of 5 or more numbered lines, also one that ends the text, and
\* keeps every other line, so every shorter run, unchanged.
TocRunsDropped ==
    pc = "cleanup" =>
        cur = join(OutsideLongRuns(LineRules(split_on(prev, "\n")), 1), <<"\n">>)

\* five numbered lines were dropped and the line after them was kept
TocRunsDroppedWitness ==
    /\ pc = "cleanup"
    /\ Len(split_on(prev, "\n")) = 6
    /\ \A i \in 1..5 : Numbered(split_on(prev, "\n")[i])
    /\ cur = LongNumbered

\* C10: remove_boilerplate runs only when filter_meta is true.  Without it
\* preprocess returns the chunks of the normalized, artifact-filtered text,
\* so an ISBN line of the input is still in the chunks; with it no chunk
\* holds the ISBN line.
BoilerplateOnlyOnRequest ==
    /\ pc = "boilerplate" => filter_meta
    /\ (pc = "done" /\ ~filter_meta) =>
           /\ chunks = split_into_chunks(
                           final_cleanup(remove_page_artifacts(
                               normalize_whitespace(text))), max_chars)
           /\ IsbnLine \in Range(split_on(text, "\n"))
                  => <<"I", "S", "B", "N">> \in Range(WordsOf(chunks))
    /\ (pc = "done" /\ filter_meta) =>
           <<"I", "S", "B", "N">> \notin Range(WordsOf(chunks))

\* an input with an ISBN line was processed without filter_meta and the line
\* is in the chunks
BoilerplateOnlyOnRequestWitness ==
    /\ pc = "done"
    /\ ~filter_meta
    /\ IsbnLine \in Range(split_on(text, "\n"))
    /\ <<"I", "S", "B", "N">> \in Range(WordsOf(chunks))

\* s holds n newline characters in a row
HasNewlineRun(s, n) ==
    \E i \in 1..(Len(s) - n + 1) : \A k \in i..(i + n - 1) : s[k] = "\n"

\* C11: the result of normalize_whitespace holds no run of three or more
\* newline characters.
NoTripleNewline == pc # "normalize" => ~HasNewlineRun(cur, 3)

\* optional dash, digits, optional dash, blanks allowed around the digits
BarePageNumber(t) ==
    LET a == IF Len(t) >= 1 /\ t[1] = "-" THEN Tail(t) ELSE t
        b == IF Len(a) >= 1 /\ a[Len(a)] = "-" THEN SubSeq(a, 1, Len(a) - 1) ELSE a
        c == strip(b)
    IN  c # <<>> /\ \A i \in 1..Len(c) : c[i] \in Digits

\* shorter than 3 characters and not made of letters only
ShortNotAlphabetic(t) ==
    Len(t) < 3 /\ ~(t # <<>> /\ \A i \in 1..Len(t) : t[i] \in Letters)

\* a drop rule matches the trimmed line
DropRuleMatches(line) ==
    BarePageNumber(strip(line)) \/ ShortNotAlphabetic(strip(line))

\* the lines of ls that a drop rule does not match; with `blanks` also the
\* blank lines
RECURSIVE PassThrough(_, _)
PassThrough(ls, blanks) ==
    IF ls = <<>> THEN <<>>
    ELSE (IF ~DropRuleMatches(Head(ls)) \/ (blanks /\ strip(Head(ls)) = <<>>)
          THEN <<Head(ls)>> ELSE <<>>) \o PassThrough(Tail(ls), blanks)

\* C12: remove_page_artifacts passes every line that matches neither drop
\* rule through verbatim and keeps the blank lines of its input.
ArtifactsKeepBlankLines ==
    pc = "cleanup" => cur = join(PassThrough(split_on(prev, "\n"), TRUE), <<"\n">>)

\* C19: remove_page_artifacts drops a line exactly when its trimmed form is a
\* bare page number or is shorter than 3 characters and not purely alphabetic;
\* the other lines are kept, unchanged and in their order.
ArtifactsDropExactly ==
    pc = "cleanup" => cur = join(PassThrough(split_on(prev, "\n"), FALSE), <<"\n">>)

\* a dashed page number and a letter-digit pair were dropped and the
\* two-letter line between them was kept with its trailing blank
ArtifactsDropExactlyWitness ==
    /\ pc = "cleanup"
    /\ prev = <<"-", " ", "4", " ", "-", "\n", "a", "b", " ", "\n", "a", "1">>
    /\ cur = <<"a", "b", " ">>

\* the number of elements of xs that equal x
RECURSIVE Count(_, _)
Count(xs, x) ==
    IF xs = <<>> THEN 0 ELSE (IF Head(xs) = x THEN 1 ELSE 0) + Count(Tail(xs), x)

\* C13: "Hello world. This is a test! Нет?" with budget 15 gives the three
\* sentences as three chunks, in order; and a sentence of exactly max_chars
\* characters always comes out whole as a chunk of its own.
ExactFitSentence ==
    pc = "done" =>
        /\ (text = join(<<HelloWorld, ThisIsATest, Net>>, <<" ">>) /\ max_chars = 15)
               => chunks = <<HelloWorld, ThisIsATest, Net>>
        /\ \A i \in 1..Len(sentences) :
               Len(sentences[i]) = max_chars
                   => Count(chunks, sentences[i]) = Count(sentences, sentences[i])

\* the example has been chunked with budget 15, which its second sentence
\* fills exactly
ExactFitSentenceWitness ==
    /\ pc = "done"
    /\ text = join(<<HelloWorld, ThisIsATest, Net>>, <<" ">>)
    /\ max_chars = 15
    /\ Len(sentences[2]) = max_chars
    /\ Len(chunks) = 3

\* C14: calls of preprocess share nothing.  However the statements of two
\* calls are interleaved, each returns the chunks it returns when it runs
\* alone, and two calls with the same arguments return the same chunks.
Reentrant ==
    /\ pc = "done" => chunks = preprocess(text, max_chars, filter_meta)
    /\ other.pc = "done" =>
           other.chunks = preprocess(other.text, other.max_chars, other.filter_meta)
    /\ (/\ pc = "done"
        /\ other.pc = "done"
        /\ text = other.text
        /\ max_chars = other.max_chars
        /\ filter_meta = other.filter_meta) => chunks = other.chunks

\* both calls are in the middle of their loops, on different texts, each with
\* a chunk emitted and a sentence still to come
ReentrantWitness ==
    /\ pc = "loop"
    /\ other.pc = "loop"
    /\ text # other.text
    /\ idx >= 1 /\ idx < Len(sentences) /\ chunks # <<>>
    /\ other.idx >= 1 /\ other.idx < Len(other.sentences) /\ other.chunks # <<>>

\* C15: a sentence not longer than max_chars is appended to the buffer if and
\* only if the joined buffer, a space when the buffer is non-empty, and the
\* sentence together have at most max_chars characters; otherwise the buffer
\* is emitted as a chunk and the new buffer holds that sentence alone, so the
\* emitted chunk, a space and the sentence exceed max_chars.
GreedySentenceRule ==
    [][(pc = "loop" /\ idx < Len(sentences) /\ Len(sentences[idx + 1]) <= max_chars) =>
        LET s == sentences[idx + 1]
            buffer == join(current_chunk, <<" ">>)
            total == Len(buffer) + (IF current_chunk # <<>> THEN 1 ELSE 0) + Len(s)
        IN  IF total <= max_chars
            THEN chunks' = chunks /\ current_chunk' = Append(current_chunk, s)
            ELSE /\ chunks' = Append(chunks, buffer)
                 /\ current_chunk' = <<s>>
                 /\ Len(buffer) + 1 + Len(s) > max_chars]_vars

\* two sentences were packed into one chunk, and the third, which did not
\* fit, closed it and sits alone in the buffer
GreedySentenceRuleWitness ==
    /\ pc = "loop"
    /\ idx = 3
    /\ \A i \in 1..3 : Len(sentences[i]) <= max_chars
    /\ chunks = <<join(<<sentences[1], sentences[2]>>, <<" ">>)>>
    /\ current_chunk = <<sentences[3]>>

\* The generic greedy pack: an item joins the buffer when the buffer, joined
\* by single spaces with the item, has at most m characters; otherwise the
\* buffer is emitted and the item starts the next one.
RECURSIVE PackFrom(_, _, _, _)
PackFrom(out, buf, items, m) ==
    IF items = <<>> THEN (IF buf # <<>> THEN Append(out, join(buf, <<" ">>)) ELSE out)
    ELSE IF Len(join(Append(buf, Head(items)), <<" ">>)) <= m
    THEN PackFrom(out, Append(buf, Head(items)), Tail(items), m)
    ELSE PackFrom(IF buf # <<>> THEN Append(out, join(buf, <<" ">>)) ELSE out,
                  <<Head(items)>>, Tail(items), m)

GreedyPack(items, m) == PackFrom(<<>>, <<>>, items, m)

\* the text is one sentence of one clause fragment, longer than the budget:
\* its chunks are the word-chunks of the word tier
WordTierOnly ==
    /\ sentences = <<text>>
    /\ re_split(text, ClauseEnd, FALSE, {}) = <<text>>
    /\ Len(text) > max_chars

\* C16: the word tier packs words under the rule of the sentence and clause
\* tiers: its word-chunks are the generic greedy pack of the words.
WordTierIsGreedyPack ==
    (pc = "done" /\ WordTierOnly) => chunks = GreedyPack(split_words(text), max_chars)

\* C17: at a sentence longer than max_chars the pending buffer, if any, is
\* emitted first as a chunk, the chunks emitted after it hold the words of
\* that sentence and nothing else, and the buffer is empty afterwards: a
\* fragment of the long sentence never shares a chunk with a neighbour.
LongSentenceApart ==
    [][(pc = "loop" /\ idx < Len(sentences) /\ Len(sentences[idx + 1]) > max_chars) =>
        LET before == IF current_chunk # <<>>
                      THEN Append(chunks, join(current_chunk, <<" ">>))
                      ELSE chunks
            n == Len(before)
        IN  /\ current_chunk' = <<>>
            /\ Len(chunks') >= n
            /\ SubSeq(chunks', 1, n) = before
            /\ WordsOf(SubSeq(chunks', n + 1, Len(chunks')))
                   = split_words(sentences[idx + 1])]_vars

\* a short sentence and the first fragment of the long sentence after it
\* would fit in the budget together, and are two chunks
LongSentenceApartWitness ==
    /\ pc = "done"
    /\ Len(sentences) = 2
    /\ Len(sentences[1]) <= max_chars
    /\ Len(sentences[2]) > max_chars
    /\ Len(chunks) >= 3
    /\ chunks[1] = sentences[1]
    /\ Len(chunks[1]) + 1 + Len(chunks[2]) <= max_chars

\* The fragments of s, read character by character: a run of whitespace that
\* comes right after a comma, semicolon, colon, hyphen or em-dash ends the
\* fragment and is left out.
RECURSIVE FragScan(_, _, _, _)
FragScan(s, i, acc, out) ==
    IF i > Len(s) THEN Append(out, acc)
    ELSE IF /\ s[i] \in Whitespace
            /\ acc # <<>>
            /\ acc[Len(acc)] \in {",", ";", ":", "-", "EMDASH"}
    THEN FragScan(s, SkipWhile(s, i, Whitespace), <<>>, Append(out, acc))
    ELSE FragScan(s, i + 1, Append(acc, s[i]), out)

\* C18: _split_long_sentence cuts the sentence at every whitespace run that
\* follows , ; : - or an em-dash.  A fragment within the budget joins the
\* sub-chunk if and only if the sub-chunk joined with it has at most max_chars
\* characters, otherwise the sub-chunk is emitted and the fragment starts
\* the next one; at a fragment over the budget the pending sub-chunk is
\* emitted before the word-chunks of that fragment.
ClauseRule ==
    /\ [](pc = "clause_loop" => splitter.parts = FragScan(text, 1, <<>>, <<>>))
    /\ [][(pc = "clause_loop" /\ splitter.idx < Len(splitter.parts)) =>
          LET f == splitter.parts[splitter.idx + 1]
              buffer == join(splitter.current, <<" ">>)
              pending == IF splitter.current # <<>>
                         THEN Append(splitter.chunks, buffer)
                         ELSE splitter.chunks
              total == Len(buffer) + (IF splitter.current # <<>> THEN 1 ELSE 0) + Len(f)
              after == splitter'
          IN  IF Len(f) > max_chars
              THEN /\ after.current = <<>>
                   /\ Len(after.chunks) > Len(pending)
                   /\ SubSeq(after.chunks, 1, Len(pending)) = pending
                   /\ WordsOf(SubSeq(after.chunks, Len(pending) + 1, Len(after.chunks)))
                          = split_words(f)
              ELSE IF total <= max_chars
              THEN /\ after.chunks = splitter.chunks
                   /\ after.current = Append(splitter.current, f)
              ELSE /\ after.chunks = Append(splitter.chunks, buffer)
                   /\ after.current = <<f>>]_vars

\* a sentence of three fragments, cut after a dash and after another mark:
\* the first two were packed together and the third did not fit
ClauseRuleWitness ==
    /\ pc = "done"
    /\ Len(splitter.parts) = 3
    /\ splitter.parts[1][Len(splitter.parts[1])] \in {"-", "EMDASH"}
    /\ chunks = <<join(<<splitter.parts[1], splitter.parts[2]>>, <<" ">>),
                  splitter.parts[3]>>

\* the line with its capitals made small
Fold(t) == [i \in 1..Len(t) |-> lower(t[i])]

\* the copyright sign, (c), and the word, in small letters
CopyrightPrefixes ==
    {<<"COPYRIGHT_SIGN">>, <<"(", "c", ")">>,
     <<"c", "o", "p", "y", "r", "i", "g", "h", "t">>}

\* the trimmed line begins with one of the prefixes, in any case; with
\* `spaced`, a whitespace character comes right after the prefix
BeginsCopyright(line, spaced) ==
    LET t == Fold(strip(line))
    IN  \E p \in CopyrightPrefixes :
            /\ Len(t) >= Len(p)
            /\ SubSeq(t, 1, Len(p)) = p
            /\ spaced => (Len(t) > Len(p) /\ t[Len(p) + 1] \in Whitespace)

\* C20 as stated: remove_boilerplate removes every line whose trimmed form
\* begins with the copyright sign, (c) or Copyright, whatever follows.
CopyrightAnyFollower ==
    pc = "cleanup" =>
        \A l \in Range(split_on(cur, "\n")) : ~BeginsCopyright(l, FALSE)

\* C20 amended: remove_boilerplate removes every line whose trimmed form
\* begins, in any case, with the copyright sign, (c) or Copyright followed by
\* a whitespace character.
CopyrightThenSpace ==
    pc = "cleanup" =>
        \A l \in Range(split_on(cur, "\n")) : ~BeginsCopyright(l, TRUE)

\* of three lines the two notices with a blank or tab after the prefix were
\* removed and the one with a letter right after the sign is left
CopyrightThenSpaceWitness ==
    /\ pc = "cleanup"
    /\ Len(split_on(prev, "\n")) = 3
    /\ <<"(", "C", ")", "\t", "a">> \in Range(split_on(prev, "\n"))
    /\ <<" ", "COPYRIGHT_SIGN", " ", "a", " ">> \in Range(split_on(prev, "\n"))
    /\ cur = <<"COPYRIGHT_SIGN", "a">>

\* xs is ys with some elements left out
RECURSIVE IsSubseq(_, _)
IsSubseq(xs, ys) ==
    \/ xs = <<>>
    \/ /\ ys # <<>>
       /\ IF Head(xs) = Head(ys) THEN IsSubseq(Tail(xs), Tail(ys))
          ELSE IsSubseq(xs, Tail(ys))

\* the indexes, from i on, of the lines of ls that are not numbered lines:
\* the lines that end a run
RECURSIVE EnderIndexes(_, _)
EnderIndexes(ls, i) ==
    IF i > Len(ls) THEN <<>>
    ELSE (IF Numbered(ls[i]) THEN <<>> ELSE <<i>>) \o EnderIndexes(ls, i + 1)

\* the run of numbered lines that line j of ls ends
RunBefore(ls, j) ==
    LET a == CHOOSE a \in 1..j :
                 /\ \A k \in a..(j - 1) : Numbered(ls[k])
                 /\ a = 1 \/ ~Numbered(ls[a - 1])
    IN  SubSeq(ls, a, j - 1)

\* the lists of lines whose join with newlines is t
LinesJoinedAs(t) == {split_on(t, "\n")} \cup (IF t = <<>> THEN {<<>>} ELSE {})

\* C21: in the block pass every line that ends a run is in the output, a run
\* of fewer than 5 lines stands in the output right before the line that
\* ends it, and the output lines are the input lines with some left out,
\* unchanged and in order.
BlockPassFrame ==
    pc = "cleanup" =>
        \E out \in LinesJoinedAs(cur) :
            LET inp == LineRules(split_on(prev, "\n"))
                ei == EnderIndexes(inp, 1)
                eo == EnderIndexes(out, 1)
            IN  /\ Len(ei) = Len(eo)
                /\ \A n \in 1..Len(ei) :
                       /\ out[eo[n]] = inp[ei[n]]
                       /\ LET run == RunBefore(inp, ei[n])
                          IN  Len(run) < 5 =>
                                  /\ eo[n] > Len(run)
                                  /\ SubSeq(out, eo[n] - Len(run), eo[n] - 1) = run
                /\ IsSubseq(out, inp)
                /\ IsSubseq(out, split_on(prev, "\n"))

\* a run of two was kept before the heading that ends it
BlockPassFrameWitness ==
    /\ pc = "cleanup"
    /\ prev = join(<<<<"a", " ", "1">>, <<"a", " ", "1">>, <<"a", "b", " ">>,
                     <<"a", " ", "1">>>>, <<"\n">>)
    /\ cur = prev

\* the lines of ls that no line rule removes
RECURSIVE Survivors(_)
Survivors(ls) ==
    IF ls = <<>> THEN <<>>
    ELSE (IF BoilerplateKeeps(Head(ls)) THEN <<Head(ls)>> ELSE <<>>)
             \o Survivors(Tail(ls))

\* C29: runs are counted over the lines the line rules leave.  Numbered
\* lines with only removed lines (a URL, an ISBN line) between them are one
\* run, dropped when they are 5 or more; a blank line between two groups ends
\* the run, so two groups of fewer than 5 lines each are both kept.
RunsSpanRemovedLines ==
    pc = "cleanup" =>
        LET surv == Survivors(split_on(prev, "\n"))
        IN  /\ (Len(surv) >= 5 /\ \A i \in 1..Len(surv) : Numbered(surv[i]))
                   => cur = <<>>
            /\ \A k \in 1..Len(surv) :
                   (/\ strip(surv[k]) = <<>>
                    /\ \A i \in 1..Len(surv) : i # k => Numbered(surv[i])
                    /\ k - 1 < 5
                    /\ Len(surv) - k < 5) => cur = join(surv, <<"\n">>)

\* two and three numbered lines with a URL line between them were dropped
\* together
RunsSpanRemovedLinesWitness ==
    /\ pc = "cleanup"
    /\ prev = join(<<<<"a", " ", "1">>, <<"a", " ", "1">>, <<"w", "w", "w", ".", "a">>,
                     <<"a", " ", "1">>, <<"a", " ", "1">>, <<"a", " ", "1">>>>, <<"\n">>)
    /\ cur = <<>>

\* the characters a sentence may begin with: the Latin capitals, the Cyrillic
\* capitals, Io among them, and the quote mark
Capitals ==
    Range(UpperLatin) \cup Range(UpperCyrillic) \cup {"CYR_CAP_IO"} \cup {"\""}

\* index i begins a whitespace run that follows . ! or ? and is followed by
\* a character a sentence may begin with
BoundaryAt(s, i) ==
    /\ i >= 2
    /\ i <= Len(s)
    /\ s[i - 1] \in {".", "!", "?"}
    /\ s[i] \in Whitespace
    /\ LET e == SkipWhile(s, i, Whitespace)
       IN  e <= Len(s) /\ s[e] \in Capitals

\* s cut at its boundaries, read character by character
RECURSIVE CutAtBoundaries(_, _, _, _)
CutAtBoundaries(s, i, acc, out) ==
    IF i > Len(s) THEN Append(out, acc)
    ELSE IF BoundaryAt(s, i)
    THEN CutAtBoundaries(s, SkipWhile(s, i, Whitespace), <<>>, Append(out, acc))
    ELSE CutAtBoundaries(s, i + 1, Append(acc, s[i]), out)

NotEmpty(x) == x # <<>>

\* the pieces trimmed, the empty ones left out
Trimmed(pieces) ==
    SelectSeq([i \in 1..Len(pieces) |-> strip(pieces[i])], NotEmpty)

\* C22: split_into_sentences cuts the text at exactly the whitespace runs
\* that follow . ! or ? and come before a Latin capital, any Cyrillic capital
\* or a quote mark, and nowhere else.
SplitsAtEveryCapital ==
    pc = "loop" => sentences = Trimmed(CutAtBoundaries(text, 1, <<>>, <<>>))

HasBoundary(s) == \E i \in 2..Len(s) : BoundaryAt(s, i)

\* C23 as stated: a text without a boundary gives exactly one sentence, the
\* whole text, and no sentence is empty after trimming.
NoBoundaryOneSentence ==
    pc = "loop" =>
        /\ ~HasBoundary(text) => sentences = <<text>>
        /\ \A i \in 1..Len(sentences) : strip(sentences[i]) # <<>>

\* C23 amended: a text without a boundary that is not all whitespace gives
\* exactly one sentence, the trimmed text, a text of whitespace only gives
\* none; and no sentence is empty after trimming.
NoBoundaryTrimmedSentence ==
    pc = "loop" =>
        /\ ~HasBoundary(text) =>
               sentences = IF strip(text) = <<>> THEN <<>> ELSE <<strip(text)>>
        /\ \A i \in 1..Len(sentences) : strip(sentences[i]) # <<>>

\* a text that begins with a blank, whose full stop is followed by a blank and
\* a small letter, came back as one trimmed sentence
NoBoundaryTrimmedSentenceWitness ==
    /\ pc = "loop"
    /\ text = <<" ", ".", " ", "a">>
    /\ sentences = <<<<".", " ", "a">>>>

RECURSIVE SumOfLengths(_)
SumOfLengths(xs) ==
    IF xs = <<>> THEN 0 ELSE Len(Head(xs)) + SumOfLengths(Tail(xs))

\* the length of the pieces joined by single spaces: the sum of their lengths
\* and one for every join
JoinedLength(xs) == IF xs = <<>> THEN 0 ELSE SumOfLengths(xs) + Len(xs) - 1

\* C24: at the start of every iteration of the loop of split_into_chunks the
\* tracked length is the length of the buffered sentences joined by single
\* spaces, and is 0 exactly when the buffer is empty; so it is for the clause
\* buffer of _split_long_sentence.
BufferLengthTracked ==
    /\ pc = "loop" =>
           /\ current_length = JoinedLength(current_chunk)
           /\ current_length = 0 <=> current_chunk = <<>>
    /\ pc = "clause_loop" =>
           /\ splitter.current_length = JoinedLength(splitter.current)
           /\ splitter.current_length = 0 <=> splitter.current = <<>>

\* the buffer holds two sentences and the tracked length counts the join
BufferLengthTrackedWitness ==
    /\ pc = "loop"
    /\ Len(current_chunk) = 2
    /\ current_length = Len(current_chunk[1]) + 1 + Len(current_chunk[2])

\* the last character of a line, if any, is not whitespace
NoTrailingWhitespace(line) == line = <<>> \/ line[Len(line)] \notin Whitespace

\* C25: in the output of normalize_whitespace no line has trailing whitespace,
\* the text has no leading or trailing whitespace, and there is no carriage
\* return, no tab and no two adjacent spaces.
NormalizedShape ==
    pc # "normalize" =>
        /\ \A k \in 1..Len(split_on(cur, "\n")) :
               NoTrailingWhitespace(split_on(cur, "\n")[k])
        /\ cur = <<>> \/ (cur[1] \notin Whitespace /\ cur[Len(cur)] \notin Whitespace)
        /\ \A i \in 1..Len(cur) : cur[i] # "\r" /\ cur[i] # "\t"
        /\ \A i \in 1..(Len(cur) - 1) : ~(cur[i] = " " /\ cur[i + 1] = " ")

\* a text with a run of spaces, a carriage return and a tab was normalized
NormalizedShapeWitness ==
    /\ pc = "artifacts"
    /\ prev = <<"a", " ", " ", "\r", "\t", "a">>
    /\ cur = <<"a", "\n", "a">>

\* C26: when preprocess has returned an empty chunk sequence to main, main
\* reports no error and does not exit with a failure status.
EmptyChunksNoError ==
    (cli.pc = "returned" /\ pc = "done" /\ chunks = <<>>) =>
        (cli.status = 0 /\ cli.errors = <<>>)

\* the words of the first n sentences, in order
RECURSIVE WordsOfFirst(_, _)
WordsOfFirst(ss, n) ==
    IF n = 0 THEN <<>> ELSE WordsOfFirst(ss, n - 1) \o split_words(ss[n])

\* C27: for max_chars <= 0 split_into_chunks raises nothing and terminates
\* (every iteration consumes one sentence and none is left over), and it
\* returns one chunk per whitespace-delimited word of the text, in order:
\* nothing is ever buffered, every word is flushed alone.
NonPositiveBudgetWords ==
    max_chars <= 0 =>
        /\ ~raised
        /\ pc \in {"split_into_chunks", "loop", "done"}
        /\ pc = "loop" =>
               /\ idx \in 0..Len(sentences)
               /\ current_chunk = <<>>
               /\ chunks = WordsOfFirst(sentences, idx)
        /\ pc = "done" => chunks = split_words(text)

\* two sentences, the second of two words, have come out as three chunks
NonPositiveBudgetWordsWitness ==
    /\ pc = "done"
    /\ max_chars = -1
    /\ text = <<".", " ", "B", " ", "a">>
    /\ sentences = << <<".">>, <<"B", " ", "a">> >>
    /\ chunks = << <<".">>, <<"B">>, <<"a">> >>

\* a piece or chunk that is not empty and neither starts nor ends in whitespace
TrimmedPiece(p) ==
    p # <<>> /\ p[1] \notin Whitespace /\ p[Len(p)] \notin Whitespace

AllTrimmed(ps) == \A k \in 1..Len(ps) : TrimmedPiece(ps[k])

\* the pieces in order with exactly one space between neighbours
RECURSIVE Spaced(_)
Spaced(ps) ==
    IF ps = <<>> THEN <<>>
    ELSE IF Len(ps) = 1 THEN ps[1]
    ELSE ps[1] \o <<" ">> \o Spaced(Tail(ps))

\* a chunk of words: its only whitespace is single spaces between words
WordSpaced(c) ==
    /\ TrimmedPiece(c)
    /\ \A i \in 1..Len(c) :
           c[i] \in Whitespace => (c[i] = " " /\ c[i + 1] \notin Whitespace)

\* the chunk a step adds first is the buffer it found, one space between its
\* pieces
FlushesSpaced(buffer, before, after) ==
    (buffer # <<>> /\ Len(after) > Len(before)) =>
        after[Len(before) + 1] = Spaced(buffer)

\* the chunks a step adds for a part longer than the budget, behind the
\* flushed buffer, are chunks of words
WordChunksSpaced(buffer, before, after) ==
    \A k \in (Len(before) + (IF buffer # <<>> THEN 2 ELSE 1))..Len(after) :
        WordSpaced(after[k])

\* C28: every chunk of split_into_chunks has no leading and no trailing
\* whitespace, and the pieces joined inside a chunk (sentences, clause
\* fragments, words), which have none either, are separated by exactly one
\* space.
OneSpaceBetweenPieces ==
    /\ [](/\ AllTrimmed(chunks)
          /\ AllTrimmed(current_chunk)
          /\ AllTrimmed(splitter.chunks)
          /\ AllTrimmed(splitter.current))
    /\ [][/\ pc = "loop" => FlushesSpaced(current_chunk, chunks, chunks')
          /\ (pc = "clause_loop" /\ pc' = "clause_loop") =>
                 /\ FlushesSpaced(splitter.current, splitter.chunks,
                                  splitter'.chunks)
                 /\ Len(splitter.parts[splitter.idx + 1]) > max_chars =>
                        WordChunksSpaced(splitter.current, splitter.chunks,
                                         splitter'.chunks)
          /\ (pc = "clause_loop" /\ pc' = "done") =>
                 FlushesSpaced(splitter.current, splitter.chunks, chunks')]_vars

\* two sentences two spaces apart have come out as one chunk, one space apart
OneSpaceBetweenPiecesWitness ==
    /\ pc = "done"
    /\ text = <<".", " ", " ", "B">>
    /\ sentences = << <<".">>, <<"B">> >>
    /\ chunks = << <<".", " ", "B">> >>

\* the number of non-blank chunks among the first n
RECURSIVE NonBlankCount(_, _)
NonBlankCount(cs, n) ==
    IF n = 0 THEN 0
    ELSE NonBlankCount(cs, n - 1) + (IF strip(cs[n]) = <<>> THEN 0 ELSE 1)

\* chunk_0000.wav, chunk_0001.wav, ... : k names without a gap
NamesUpTo(k) == [j \in 1..k |-> ChunkName(j - 1)]

\* what holds of the locals of synthesize_chunks between iterations and at
\* the return
SynthCounts ==
    synth.pc \in {"loop", "returned"} =>
        /\ synth.i \in 0..Len(synth.chunks)
        /\ synth.pc = "returned" => synth.i = Len(synth.chunks)
        /\ synth.chunk_idx = NonBlankCount(synth.chunks, synth.i)
        /\ synth.wav_files = NamesUpTo(NonBlankCount(synth.chunks, synth.i))
        /\ synth.skipped + Len(synth.calls) = Len(synth.wav_files)
        /\ synth.skipped <= Len(synth.wav_files)
        /\ ~synth.resume => synth.skipped = 0

\* what an iteration that consumes chunk i + 1 does
SynthIteration ==
    LET chunk == synth.chunks[synth.i + 1]
        name == ChunkName(NonBlankCount(synth.chunks, synth.i))
        file == synth.files[name]
    IN  IF strip(chunk) = <<>>
        THEN /\ synth'.wav_files = synth.wav_files
             /\ synth'.calls = synth.calls
             /\ synth'.skipped = synth.skipped
             /\ synth'.files = synth.files
             /\ synth'.progress = synth.progress
        ELSE /\ synth'.wav_files = Append(synth.wav_files, name)
             /\ synth.callback =>
                    synth'.progress = Append(synth.progress,
                                             <<synth.i + 1, Len(synth.chunks)>>)
             /\ IF synth.resume /\ file # None /\ file[1] > 0
                THEN /\ synth'.calls = synth.calls
                     /\ synth'.skipped = synth.skipped + 1
                     /\ synth'.files = synth.files
                ELSE /\ synth'.calls = Append(synth.calls, <<chunk, name>>)
                     /\ synth'.skipped = synth.skipped
                     /\ synth'.files[name] # None
                     /\ synth'.files[name][1] > 0

\* C30: synthesize_chunks handles the chunks strictly in list order, with one
\* file chunk_NNNN.wav per non-blank chunk, NNNN counting the non-blank chunks
\* from 0 without gaps; with resume a chunk whose file exists with non-zero
\* size is not synthesized again and is counted in skipped, an existing
\* zero-size file is synthesized again, and without resume skipped is 0; the
\* returned list has one path per non-blank chunk and skipped is at most its
\* length.
SynthesizeInOrder ==
    /\ []SynthCounts
    /\ [][/\ synth'.i \in {synth.i, synth.i + 1}
          /\ synth'.chunks = synth.chunks
          /\ synth'.i = synth.i + 1 => SynthIteration]_vars

\* with resume, the first chunk was skipped, the blank one got no file, and
\* the third was synthesized into chunk_0001.wav
SynthesizeInOrderWitness ==
    /\ synth.pc = "returned"
    /\ synth.resume
    /\ synth.chunks = << <<"a">>, <<" ">>, <<"a">> >>
    /\ synth.skipped = 1
    /\ synth.wav_files = <<ChunkName(0), ChunkName(1)>>
    /\ synth.calls = << << <<"a">>, ChunkName(1) >> >>

====
